---- MODULE Spec2Model ----
(***************************************************************************)
(* wrapex command registry (store-backed createRegistry) and its           *)
(* middleware pipeline.  The registry state is the pair of plain objects   *)
(* { commands, owners } held by the store; plain objects are modelled with *)
(* their own keys in property order and the keys they inherit from         *)
(* Object.prototype.                                                        *)
(***************************************************************************)
EXTENDS Integers, Sequences, FiniteSets, TLC

VARIABLES commands, owners, last, seen, middleware, evalMode, providerMode, call,
          defined, madeBy, other, appContext, mapped, subscribed

vars == <<commands, owners, last, seen, middleware, evalMode, providerMode, call,
          defined, madeBy, other, appContext, mapped, subscribed>>

sideVars == <<appContext, mapped, subscribed>>

regVars == <<commands, owners, last, seen>>

cfgVars == <<middleware, evalMode, providerMode>>

(***************************************************************************)
(* Bounds                                                                   *)
(***************************************************************************)
MaxBatch == 2

MaxMiddleware == 2

MaxTags == 2

MaxParts == 2

(***************************************************************************)
(* Values                                                                   *)
(***************************************************************************)
Undef == "undefined"

\* Command ids: a namespaced id, an integer-like key, and a key that every
\* plain object inherits from Object.prototype.
Ids == {"app.a", "7", "constructor"}

Owners == {"panelA", "constructor"}

\* Property names that a plain object ({} literal, spread copy) inherits.
ProtoKeys == {"constructor"}

\* Integer-like keys, which own-property order lists first.
IndexKeys == {"7"}

\* PolicyMetadata as far as the confirmation flag goes; a definition without
\* metadata reads the same as one whose metadata does not set the flag
\* (def.metadata?.requiresConfirmation is undefined for both).
Metadata(requiresConfirmation) == [requiresConfirmation |-> requiresConfirmation]

\* A CommandDefinition value (isVisible, requiresConfirmation, tags and
\* metadata not given; the category is that of the test suite's commands).
Cmd(id, label, when, schema, isEnabled, execute) ==
  [type |-> "command", id |-> id, label |-> label, when |-> when,
   schema |-> schema, isEnabled |-> isEnabled, execute |-> execute,
   isVisible |-> Undef, requiresConfirmation |-> Undef,
   category |-> "Test", tags |-> <<>>, metadata |-> Metadata(Undef)]

\* The same definition with metadata: { requiresConfirmation }.
WithMetadata(def, requiresConfirmation) ==
  [def EXCEPT !.metadata = Metadata(requiresConfirmation)]

\* The same definition with an isVisible predicate.
WithVisible(def, isVisible) == [def EXCEPT !.isVisible = isVisible]

\* The same definition with requiresConfirmation: true.
WithConfirmation(def) == [def EXCEPT !.requiresConfirmation = "true"]

\* What reading a missing key of a plain object yields.
UndefinedValue ==
  [type |-> "undefined", id |-> Undef, label |-> Undef, when |-> Undef,
   schema |-> Undef, isEnabled |-> Undef, execute |-> Undef,
   isVisible |-> Undef, requiresConfirmation |-> Undef,
   category |-> Undef, tags |-> <<>>, metadata |-> Metadata(Undef)]

\* What reading the inherited key "constructor" yields: the Object function,
\* which has none of a definition's fields.
ObjectFunction ==
  [type |-> "function", id |-> Undef, label |-> Undef, when |-> Undef,
   schema |-> Undef, isEnabled |-> Undef, execute |-> Undef,
   isVisible |-> Undef, requiresConfirmation |-> Undef,
   category |-> Undef, tags |-> <<>>, metadata |-> Metadata(Undef)]

\* resolveMetadata(def).requiresConfirmation:
\* def.metadata?.requiresConfirmation ?? def.requiresConfirmation ?? false
resolveMetadata(def) ==
  [requiresConfirmation |->
     IF def.metadata.requiresConfirmation # Undef
     THEN def.metadata.requiresConfirmation = "true"
     ELSE IF def.requiresConfirmation # Undef
          THEN def.requiresConfirmation = "true"
          ELSE FALSE]

\* !v of a field of a definition: undefined and the empty string are falsy.
Falsy(v) == v \in {Undef, ""}

\* A defineCommand that does not look at category.
defineCommandNoCategory(def) ==
  IF Falsy(def.id) \/ Falsy(def.label) \/ Falsy(def.execute)
  THEN [threw |-> TRUE, ret |-> UndefinedValue]
  ELSE [threw |-> FALSE, ret |-> def]

\* defineCommand: throws on a falsy id, label, category or execute, and
\* otherwise returns Object.freeze(def), the object it was given.
defineCommand(def) ==
  IF Falsy(def.id) \/ Falsy(def.label) \/ Falsy(def.category) \/ Falsy(def.execute)
  THEN [threw |-> TRUE, ret |-> UndefinedValue]
  ELSE [threw |-> FALSE, ret |-> def]

\* JavaScript truthiness of a value read from the commands object.
Truthy(v) == v.type # "undefined"

(***************************************************************************)
(* Plain objects: a sequence of [key, val] in own-property order            *)
(***************************************************************************)
HasOwn(obj, k) == \E i \in 1..Len(obj) : obj[i].key = k

OwnIndex(obj, k) == CHOOSE i \in 1..Len(obj) : obj[i].key = k

OwnKeys(obj) == [i \in 1..Len(obj) |-> obj[i].key]

OwnValues(obj) == [i \in 1..Len(obj) |-> obj[i].val]

\* obj[k] = v by assignment or by a computed key in a literal: an existing own
\* key keeps its place; a new integer-like key goes among the integer-like
\* keys (a single one here), a new string key goes last.
ObjSet(obj, k, v) ==
  IF HasOwn(obj, k)
  THEN [obj EXCEPT ![OwnIndex(obj, k)] = [key |-> k, val |-> v]]
  ELSE IF k \in IndexKeys
       THEN <<[key |-> k, val |-> v]>> \o obj
       ELSE Append(obj, [key |-> k, val |-> v])

\* delete obj[k], and the rest pattern { [k]: _, ...rest }.
ObjDelete(obj, k) == SelectSeq(obj, LAMBDA e : e.key # k)

\* commands[id]: the own value, else the inherited one, else undefined.
Lookup(obj, k) ==
  IF HasOwn(obj, k) THEN obj[OwnIndex(obj, k)].val
  ELSE IF k \in ProtoKeys THEN ObjectFunction
  ELSE UndefinedValue

\* owners[owner] ?? []: an array of ids, or the inherited Object function
\* (not nullish, so the default does not apply).
ArrayOf(ids) == [type |-> "array", ids |-> ids]

OwnerIds(obj, owner) ==
  IF HasOwn(obj, owner) THEN obj[OwnIndex(obj, owner)].val
  ELSE IF owner \in ProtoKeys THEN [type |-> "function", ids |-> <<>>]
  ELSE ArrayOf(<<>>)

\* ids.length of that value (Object.length is 1).
LengthOf(v) == IF v.type = "function" THEN 1 ELSE Len(v.ids)

RECURSIVE DeleteAll(_, _)
DeleteAll(obj, ids) ==
  IF ids = <<>> THEN obj ELSE DeleteAll(ObjDelete(obj, Head(ids)), Tail(ids))

RECURSIVE AssignAll(_, _)
AssignAll(obj, cmds) ==
  IF cmds = <<>> THEN obj
  ELSE AssignAll(ObjSet(obj, Head(cmds).id, Head(cmds)), Tail(cmds))

IdsOf(cmds) == [i \in 1..Len(cmds) |-> cmds[i].id]

(***************************************************************************)
(* Registry operations on the store state s = [commands, owners].           *)
(* Each yields the outcome of the call: whether it threw, its return value, *)
(* the store state after it, and whether store.setState ran (which          *)
(* notifies the subscribers once, with the new state in place).             *)
(***************************************************************************)
Outcome(threw, ret, state, notify) ==
  [threw |-> threw, ret |-> ret, state |-> state, notify |-> notify]

register(s, command) ==
  IF Truthy(Lookup(s.commands, command.id))
  THEN Outcome(TRUE, Undef, s, FALSE)
  ELSE Outcome(FALSE, Undef,
               [s EXCEPT !.commands = ObjSet(s.commands, command.id, command)],
               TRUE)

\* The loop of registerAll over newCommands; stops at the first id found.
RECURSIVE RegisterAllLoop(_, _)
RegisterAllLoop(newCommands, cmds) ==
  IF cmds = <<>> THEN [threw |-> FALSE, obj |-> newCommands]
  ELSE IF Truthy(Lookup(newCommands, Head(cmds).id))
       THEN [threw |-> TRUE, obj |-> newCommands]
       ELSE RegisterAllLoop(ObjSet(newCommands, Head(cmds).id, Head(cmds)), Tail(cmds))

registerAll(s, cmds) ==
  LET r == RegisterAllLoop(s.commands, cmds)
  IN IF r.threw THEN Outcome(TRUE, Undef, s, FALSE)
     ELSE Outcome(FALSE, Undef, [s EXCEPT !.commands = r.obj], TRUE)

\* An unregister that sets the store's state whether or not the id is found.
unregisterAlwaysSets(s, id) ==
  IF ~Truthy(Lookup(s.commands, id))
  THEN Outcome(FALSE, "false", s, TRUE)
  ELSE Outcome(FALSE, "true", [s EXCEPT !.commands = ObjDelete(s.commands, id)], TRUE)

unregister(s, id) ==
  IF ~Truthy(Lookup(s.commands, id))
  THEN Outcome(FALSE, "false", s, FALSE)
  ELSE Outcome(FALSE, "true", [s EXCEPT !.commands = ObjDelete(s.commands, id)], TRUE)

\* A registerForOwner that does not remove the owner's previous ids.
registerForOwnerKeepsOld(s, owner, cmds) ==
  LET oldIds == OwnerIds(s.owners, owner)
  IN IF oldIds.type = "function"
     THEN Outcome(TRUE, Undef, s, FALSE)
     ELSE Outcome(FALSE, Undef,
                  [commands |-> AssignAll(s.commands, cmds),
                   owners |-> ObjSet(s.owners, owner, ArrayOf(IdsOf(cmds)))],
                  TRUE)

registerForOwner(s, owner, cmds) ==
  LET oldIds == OwnerIds(s.owners, owner)
  IN IF oldIds.type = "function"
     THEN Outcome(TRUE, Undef, s, FALSE)   \* for...of over a non-iterable
     ELSE LET cleaned == AssignAll(DeleteAll(s.commands, oldIds.ids), cmds)
          IN Outcome(FALSE, Undef,
                     [commands |-> cleaned,
                      owners |-> ObjSet(s.owners, owner, ArrayOf(IdsOf(cmds)))],
                     TRUE)

unregisterForOwner(s, owner) ==
  LET ids == OwnerIds(s.owners, owner)
  IN IF LengthOf(ids) = 0 THEN Outcome(FALSE, Undef, s, FALSE)
     ELSE IF ids.type = "function"
          THEN Outcome(TRUE, Undef, s, FALSE)   \* for...of over a non-iterable
          ELSE Outcome(FALSE, Undef,
                       [commands |-> DeleteAll(s.commands, ids.ids),
                        owners |-> ObjDelete(s.owners, owner)],
                       TRUE)

(***************************************************************************)
(* Queries                                                                  *)
(***************************************************************************)
get(cmds, id) == Lookup(cmds, id)

list(cmds) == OwnValues(cmds)

size(cmds) == Len(OwnKeys(cmds))

\* id -> definition, as the set of pairs list() exposes.
Mapping(cmds) == {<<cmds[i].key, cmds[i].val>> : i \in 1..Len(cmds)}

Registered(cmds, id) == \E i \in 1..Len(list(cmds)) : list(cmds)[i].id = id

(***************************************************************************)
(* Definitions used by the registration actions                             *)
(***************************************************************************)
CmdA1 == Cmd("app.a", "A one", Undef, Undef, Undef, "ok")

CmdA2 == Cmd("app.a", "A two", "ctx.ready", Undef, Undef, "ok")

CmdN == Cmd("7", "Seven", Undef, Undef, Undef, "ok")

CmdP == Cmd("constructor", "P", Undef, Undef, Undef, "ok")

RegDefs == {CmdA1, CmdA2, CmdN, CmdP}

RECURSIVE SeqsUpTo(_, _)
SeqsUpTo(S, n) ==
  IF n = 0 THEN {<<>>}
  ELSE LET shorter == SeqsUpTo(S, n - 1)
       IN shorter \cup {Append(q, x) : q \in shorter, x \in S}

Batches == SeqsUpTo(RegDefs, MaxBatch)

(***************************************************************************)
(* Execution: results, errors, contexts                                     *)
(***************************************************************************)
\* A CommandResult; the message is the sequence of its text fragments.
Result(success, message) == [success |-> success, message |-> message]

NoResult == Result(FALSE, <<>>)

\* A thrown value: an Error object with a message, or any other value.
Error(message) == [isError |-> TRUE, message |-> message, value |-> Undef]

\* A thrown string (String(v) of a string v is v itself).
Thrown(value) == [isError |-> FALSE, message |-> Undef, value |-> value]

NoError == Thrown(Undef)

\* err instanceof Error ? err.message : String(err)
ErrorText(err) == IF err.isError THEN err.message ELSE err.value

\* What a call of next(), a middleware or the handler hands to its caller.
NoRet == [kind |-> "none", res |-> NoResult, err |-> NoError]

Returns(res) == [kind |-> "value", res |-> res, err |-> NoError]

Throws(err) == [kind |-> "throw", res |-> NoResult, err |-> err]

Contains(message, text) == \E i \in 1..Len(message) : message[i] = text

\* { ...a, ...b } of two partial contexts.
Merge(a, b) ==
  [k \in DOMAIN a \cup DOMAIN b |-> IF k \in DOMAIN b THEN b[k] ELSE a[k]]

\* The contextProvider of the configuration: the default () => ({}), one
\* that supplies source and an extra key, or one that throws.
contextProvider ==
  IF providerMode = "provides"
  THEN [source |-> "provider", appVersion |-> "1.0"]
  ELSE <<>>

ContextOverrides == {<<>>, [source |-> "palette"]}

buildContext(overrides) ==
  LET merged == Merge(Merge([store |-> Undef, source |-> "unknown"], contextProvider),
                      overrides)
  IN IF "invocation" \in DOMAIN merged /\ merged.source = "unknown"
     THEN [merged EXCEPT !.source = merged.invocation]
     ELSE IF merged.source # "unknown" /\ "invocation" \notin DOMAIN merged
          THEN Merge(merged, [invocation |-> merged.source])
          ELSE merged

\* The evaluateWhen of the configuration: the default () => true, a lookup
\* in an environment where only "ctx.ready" holds, or one that throws.
evaluateWhen(clause) == IF evalMode = "default" THEN TRUE ELSE clause = "ctx.ready"

(***************************************************************************)
(* The reference evaluateWhen of the when-clause conventions.  A clause     *)
(* string is the sequence of its tokens: keys, "!", "&&" and "||" (the      *)
(* blanks around them are what trim() removes).                             *)
(***************************************************************************)
\* The keys an expression names: two the context defines and one it lacks.
WhenKeys == {"app.dataLoaded", "app.isReadOnly"}

ClauseKeys == WhenKeys \cup {"app.canUndo"}

\* A key or a negated key.
Literals == [neg : BOOLEAN, key : ClauseKeys]

\* One literal, or up to MaxParts literals joined by one operator.
Clauses ==
  {[op |-> "none", parts |-> <<lit>>] : lit \in Literals}
    \cup UNION {[op : {"&&", "||"}, parts : [1..n -> Literals]] : n \in 2..MaxParts}

RenderLiteral(lit) == IF lit.neg THEN <<"!", lit.key>> ELSE <<lit.key>>

\* The clause string of an expression.
RECURSIVE RenderParts(_, _)
RenderParts(op, parts) ==
  IF Len(parts) = 1 THEN RenderLiteral(parts[1])
  ELSE RenderLiteral(parts[1]) \o <<op>> \o RenderParts(op, Tail(parts))

Render(clause) == RenderParts(clause.op, clause.parts)

\* clause.split(sep).map(part => part.trim())
RECURSIVE Split(_, _)
Split(text, sep) ==
  IF \A i \in 1..Len(text) : text[i] # sep THEN <<text>>
  ELSE LET at == CHOOSE i \in 1..Len(text) :
                   text[i] = sep /\ \A j \in 1..(i - 1) : text[j] # sep
       IN <<SubSeq(text, 1, at - 1)>> \o Split(SubSeq(text, at + 1, Len(text)), sep)

\* context[text] ?? false: the context has an entry only for a text that is
\* one of its keys.
ContextValue(context, text) ==
  Len(text) = 1 /\ text[1] \in DOMAIN context /\ context[text[1]]

\* evaluateWhen(clause) over the context built from the app state: the
\* startsWith('!') test comes first, then includes('&&'), then includes('||').
RECURSIVE evaluateWhenReference(_, _)
evaluateWhenReference(context, text) ==
  IF text # <<>> /\ text[1] = "!"
  THEN ~ContextValue(context, Tail(text))
  ELSE IF \E i \in 1..Len(text) : text[i] = "&&"
       THEN \A i \in 1..Len(Split(text, "&&")) :
               evaluateWhenReference(context, Split(text, "&&")[i])
       ELSE IF \E i \in 1..Len(text) : text[i] = "||"
            THEN \E i \in 1..Len(Split(text, "||")) :
                    evaluateWhenReference(context, Split(text, "||")[i])
            ELSE ContextValue(context, text)

BoolText(b) == IF b THEN "true" ELSE "false"

\* params ?? {}
ParamsOrEmpty(params) == IF params = Undef THEN "{}" ELSE params

Params == {"good", Undef}

\* schema.parse / schema.safeParse: the schema accepts "good" as it is, and
\* "coercible", which it coerces and completes with defaults into "good".
SchemaAccepts(schema, params) == params \in {"good", "coercible"}

\* The data of a successful parse.
SchemaParse(schema, params) == "good"

\* The params of the calls that exercise coercion.
PipelineParams == Params \cup {"coercible"}

ZodError == Error("a: expected number")

(***************************************************************************)
(* Availability and visibility queries                                      *)
(***************************************************************************)
\* A definition's isVisible / isEnabled predicate applied to a context: one
\* that always holds, one that never holds, one that reads context.source.
Predicate(kind, ctx) ==
  IF kind \in {"always", "true"} THEN TRUE
  ELSE IF kind \in {"never", "false"} THEN FALSE
  ELSE ctx.source = "palette"

\* A listAvailable that does not consult the evaluator.
listAvailableAll(cmds) == list(cmds)

isAvailable(cmds, id) ==
  LET cmd == Lookup(cmds, id)
  IN IF ~Truthy(cmd) THEN FALSE
     ELSE IF cmd.when = Undef THEN TRUE
     ELSE evaluateWhen(cmd.when)

listAvailable(cmds) ==
  SelectSeq(list(cmds), LAMBDA cmd : cmd.when = Undef \/ evaluateWhen(cmd.when))

(***************************************************************************)
(* The Map-backed createRegistry: commands is a Map, a sequence of          *)
(* [key, val] in insertion order with no inherited keys.                    *)
(***************************************************************************)
MapHas(m, id) == \E i \in 1..Len(m) : m[i].key = id

\* commands.get(id)
MapGet(m, id) ==
  IF MapHas(m, id) THEN m[CHOOSE i \in 1..Len(m) : m[i].key = id].val
  ELSE UndefinedValue

\* commands.set(id, v): a present key keeps its place, a new one goes last.
MapSet(m, id, v) ==
  IF MapHas(m, id)
  THEN [i \in 1..Len(m) |-> IF m[i].key = id THEN [key |-> id, val |-> v] ELSE m[i]]
  ELSE Append(m, [key |-> id, val |-> v])

MapOutcome(threw, ret, m) == [commands |-> m, threw |-> threw, ret |-> ret]

mapRegister(m, command) ==
  IF MapHas(m, command.id)
  THEN MapOutcome(TRUE, Undef, m)
  ELSE MapOutcome(FALSE, Undef, MapSet(m, command.id, command))

\* for (const cmd of cmds) this.register(cmd): what was registered before the
\* first duplicate stays registered.
RECURSIVE mapRegisterAll(_, _)
mapRegisterAll(m, cmds) ==
  IF cmds = <<>> THEN MapOutcome(FALSE, Undef, m)
  ELSE IF mapRegister(m, Head(cmds)).threw
       THEN MapOutcome(TRUE, Undef, m)
       ELSE mapRegisterAll(mapRegister(m, Head(cmds)).commands, Tail(cmds))

\* return commands.delete(id)
mapUnregister(m, id) ==
  IF MapHas(m, id)
  THEN MapOutcome(FALSE, "true", SelectSeq(m, LAMBDA e : e.key # id))
  ELSE MapOutcome(FALSE, "false", m)

mapList(m) == [i \in 1..Len(m) |-> m[i].val]

mapSize(m) == Len(m)

mapIsAvailable(m, id) ==
  LET cmd == MapGet(m, id)
  IN IF ~Truthy(cmd) THEN FALSE
     ELSE IF cmd.when = Undef THEN TRUE
     ELSE evaluateWhen(cmd.when)

mapListAvailable(m) ==
  SelectSeq(mapList(m), LAMBDA cmd : cmd.when = Undef \/ evaluateWhen(cmd.when))

\* No context argument (undefined).
NoContext == <<>>

\* context ?? buildContext()
ContextOrBuilt(context) ==
  IF DOMAIN context = {} THEN buildContext(<<>>) ELSE context

listVisible(cmds, context) ==
  LET ctx == ContextOrBuilt(context)
  IN SelectSeq(listAvailable(cmds),
               LAMBDA cmd : IF cmd.isVisible # Undef
                            THEN Predicate(cmd.isVisible, ctx)
                            ELSE TRUE)

\* defaultPortableSchema: () => ({ type: 'object' }).
defaultPortableSchema == [type |-> "object"]

\* portableSchema: undefined, of a command without a schema.
NoPortableSchema == [type |-> "undefined"]

\* The toPortableSchema arguments of listDescriptors: none, a converter that
\* renders the schema, and a converter that throws on the schema.
Converters == {Undef, "json", "throws"}

\* toPortableSchema ?? defaultPortableSchema, applied to one schema.
convert(toPortableSchema, schema) ==
  IF toPortableSchema = Undef THEN Returns(defaultPortableSchema)
  ELSE IF toPortableSchema = "json" THEN Returns([type |-> "object", of |-> schema])
  ELSE Throws(Error("cannot convert"))

\* The object literal listDescriptors builds for one command.
Descriptor(cmd, portableSchema) ==
  [id |-> cmd.id, label |-> cmd.label, category |-> cmd.category,
   tags |-> cmd.tags, metadata |-> cmd.metadata, when |-> cmd.when,
   portableSchema |-> portableSchema]

\* A listDescriptors that hands out the definitions themselves.
listDescriptorsWhole(cmds, toPortableSchema) ==
  [threw |-> FALSE, ret |-> list(cmds)]

\* this.list().map(cmd => ({..., portableSchema: cmd.schema ? convert(cmd.schema)
\* : undefined})): an exception of convert leaves the map and the call.
listDescriptors(cmds, toPortableSchema) ==
  LET all == list(cmds)
      failing == {i \in 1..Len(all) :
                    /\ all[i].schema # Undef
                    /\ convert(toPortableSchema, all[i].schema).kind = "throw"}
  IN IF failing # {}
     THEN [threw |-> TRUE, ret |-> <<>>]
     ELSE [threw |-> FALSE,
           ret |-> [i \in 1..Len(all) |->
                      Descriptor(all[i],
                                 IF all[i].schema # Undef
                                 THEN convert(toPortableSchema, all[i].schema).res
                                 ELSE NoPortableSchema)]]

\* The contexts a caller hands to listVisible: none, or one of a surface.
VisibleContexts ==
  {NoContext, [store |-> Undef, source |-> "palette"], [store |-> Undef, source |-> "menu"]}

(***************************************************************************)
(* One execute call.  stack holds the middleware and handler invocations   *)
(* that have not settled, innermost last; ret is what the innermost settled *)
(* invocation handed back and its caller has not yet consumed.              *)
(***************************************************************************)
Frame(who, kind, stage) == [who |-> who, kind |-> kind, stage |-> stage]

Event(ev, who) == [ev |-> ev, who |-> who]

IdleCall ==
  [pc |-> "idle", id |-> Undef, cmd |-> UndefinedValue, params |-> Undef,
   overrides |-> <<>>, ctx |-> <<>>, index |-> 0, stack |-> <<>>, ret |-> NoRet,
   received |-> Undef,
   trace |-> <<>>, calledNext |-> {}, settled |-> "pending", result |-> NoResult]

Top(cl) == cl.stack[Len(cl.stack)]

Pop(cl) == [cl EXCEPT !.stack = SubSeq(@, 1, Len(@) - 1)]

Log(cl, ev, who) == [cl EXCEPT !.trace = Append(@, Event(ev, who))]

SetStage(cl, stage) == [cl EXCEPT !.stack[Len(cl.stack)].stage = stage]

\* return res / throw err from the innermost invocation.
Return(cl, res) == [Pop(cl) EXCEPT !.ret = Returns(res)]

Raise(cl, err) == [Pop(cl) EXCEPT !.ret = Throws(err)]

\* A next() that takes the configured list from its end.
nextFromEnd(cl) ==
  IF cl.index < Len(middleware)
  THEN [cl EXCEPT !.index = @ + 1,
                  !.ret = NoRet,
                  !.stack = Append(@, Frame(Len(middleware) - cl.index,
                                            middleware[Len(middleware) - cl.index], "start"))]
  ELSE IF cl.cmd.execute = Undef
       THEN [cl EXCEPT !.ret = Throws(Error("command.execute is not a function"))]
       ELSE [cl EXCEPT !.ret = NoRet,
                       !.stack = Append(@, Frame(0, "handler", "start"))]

\* next() of runMiddleware: one index per execute call, advanced by every
\* call of next(); past the end of the list it calls command.execute.
next(cl) ==
  IF cl.index < Len(middleware)
  THEN [cl EXCEPT !.index = @ + 1,
                  !.ret = NoRet,
                  !.stack = Append(@, Frame(cl.index + 1, middleware[cl.index + 1], "start"))]
  ELSE IF cl.cmd.execute = Undef
       THEN [cl EXCEPT !.ret = Throws(Error("command.execute is not a function"))]
       ELSE [cl EXCEPT !.ret = NoRet,
                       !.stack = Append(@, Frame(0, "handler", "start"))]

\* The innermost middleware calls next() and waits for it at `stage`.
CallNext(cl, stage) ==
  LET me == Top(cl).who
  IN next([SetStage(cl, stage) EXCEPT !.calledNext = @ \cup {me}])

runMiddleware(cl) == next([cl EXCEPT !.index = 0])

\* execute up to the call of runMiddleware.
Settle(cl, res) == [cl EXCEPT !.pc = "done", !.settled = "resolved", !.result = res]

Reject(cl) == [cl EXCEPT !.pc = "done", !.settled = "rejected"]

\* An execute that does not consult isEnabled.
executeEnabledAlways(cl, overrides) ==
  LET built == [Log(cl, "contextProvider", 0)
                  EXCEPT !.ctx = buildContext(Merge([source |-> "unknown"], overrides))]
  IN IF providerMode = "throws"
     THEN Reject(Log(cl, "contextProvider", 0))
     ELSE runMiddleware([built EXCEPT !.pc = "running"])

\* execute from buildContext on: the context, the isEnabled gate, the chain.
executeEnabled(cl, overrides) ==
  LET built == [Log(cl, "contextProvider", 0)
                  EXCEPT !.ctx = buildContext(Merge([source |-> "unknown"], overrides))]
  IN IF providerMode = "throws"
     THEN Reject(Log(cl, "contextProvider", 0))
     ELSE IF cl.cmd.isEnabled = Undef
          THEN runMiddleware([built EXCEPT !.pc = "running"])
          ELSE IF cl.cmd.isEnabled = "throws"
               THEN Reject(Log(built, "isEnabled", 0))
               ELSE IF ~Predicate(cl.cmd.isEnabled, built.ctx)
                    THEN Settle(Log(built, "isEnabled", 0),
                                Result(FALSE, <<"Command", cl.id, "is currently disabled.">>))
                    ELSE runMiddleware([Log(built, "isEnabled", 0) EXCEPT !.pc = "running"])

\* An execute that does not consult the evaluator.
executeIgnoresWhen(cmds, id, params, overrides) ==
  LET command == Lookup(cmds, id)
      cl == [IdleCall EXCEPT !.id = id, !.cmd = command,
                             !.params = ParamsOrEmpty(params),
                             !.overrides = overrides]
  IN IF ~Truthy(command)
     THEN Settle(cl, Result(FALSE, <<"Unknown command:", id>>))
     ELSE executeEnabled(cl, overrides)

execute(cmds, id, params, overrides) ==
  LET command == Lookup(cmds, id)
      cl == [IdleCall EXCEPT !.id = id, !.cmd = command,
                             !.params = ParamsOrEmpty(params),
                             !.overrides = overrides]
  IN IF ~Truthy(command)
     THEN Settle(cl, Result(FALSE, <<"Unknown command:", id>>))
     ELSE IF command.when = Undef
          THEN executeEnabled(cl, overrides)
          ELSE IF evalMode = "throws"
               THEN Reject(Log(cl, "evaluateWhen", 0))
               ELSE IF ~evaluateWhen(command.when)
                    THEN Settle(Log(cl, "evaluateWhen", 0),
                                Result(FALSE, <<"Command", id,
                                  "is not available in the current context (when:",
                                  command.when>>))
                    ELSE executeEnabled(Log(cl, "evaluateWhen", 0), overrides)

\* An execute without the catch: a throw from the chain rejects the promise.
executeFinishNoCatch(cl) ==
  IF cl.ret.kind = "throw" THEN Reject(cl) ELSE Settle(cl, cl.ret.res)

\* The try/catch of execute around await runMiddleware(...).
executeFinish(cl) ==
  IF cl.ret.kind = "throw"
  THEN Settle(cl, Result(FALSE, <<"Command", cl.id, "failed:", ErrorText(cl.ret.err)>>))
  ELSE Settle(cl, cl.ret.res)

(***************************************************************************)
(* Middlewares.  Each operator is one middleware invocation's next step:    *)
(* from its start, or from the point where its awaited next() has settled.  *)
(***************************************************************************)
\* The test suite's mw1/mw2: record, await next(), record, return the result.
passMiddleware(cl) ==
  IF Top(cl).stage = "start"
  THEN CallNext(Log(cl, "before", Top(cl).who), "awaiting")
  ELSE IF cl.ret.kind = "throw"
       THEN Raise(cl, cl.ret.err)
       ELSE Return(Log(cl, "after", Top(cl).who), cl.ret.res)

\* The test suite's blocker: returns without calling next().
blockerMiddleware(cl) == Return(Log(cl, "enter", Top(cl).who), Result(FALSE, <<"blocked">>))

\* A middleware that throws before calling next().
throwingMiddleware(cl) == Raise(Log(cl, "enter", Top(cl).who), Error("middleware failed"))

\* A retrying middleware: calls next() and, when that fails or throws, calls
\* next() once more and returns what the second call gives.
retryMiddleware(cl) ==
  IF Top(cl).stage = "start"
  THEN CallNext(Log(cl, "enter", Top(cl).who), "first")
  ELSE IF Top(cl).stage = "first"
       THEN IF cl.ret.kind = "value" /\ cl.ret.res.success
            THEN Return(cl, cl.ret.res)
            ELSE CallNext(cl, "second")
       ELSE IF cl.ret.kind = "throw"
            THEN Raise(cl, cl.ret.err)
            ELSE Return(cl, cl.ret.res)

\* return next() at the end of an async middleware: its outcome is next()'s.
TailResume(cl) ==
  IF cl.ret.kind = "throw" THEN Raise(cl, cl.ret.err) ELSE Return(cl, cl.ret.res)

validationMiddleware(cl) ==
  IF Top(cl).stage = "start"
  THEN IF cl.cmd.schema # Undef /\ ~SchemaAccepts(cl.cmd.schema, cl.params)
       THEN Raise(Log(cl, "enter", Top(cl).who), ZodError)
       ELSE CallNext(Log(cl, "enter", Top(cl).who), "tail")
  ELSE TailResume(cl)

\* An error boundary that lets the error through.
errorBoundaryRethrows(cl) ==
  IF Top(cl).stage = "start"
  THEN CallNext(Log(cl, "enter", Top(cl).who), "awaiting")
  ELSE IF cl.ret.kind = "throw"
       THEN Raise(cl, cl.ret.err)
       ELSE Return(cl, cl.ret.res)

errorBoundaryMiddleware(cl) ==
  IF Top(cl).stage = "start"
  THEN CallNext(Log(cl, "enter", Top(cl).who), "awaiting")
  ELSE IF cl.ret.kind = "throw"
       THEN Return(cl, Result(FALSE, <<ErrorText(cl.ret.err)>>))
       ELSE Return(cl, cl.ret.res)

\* A createValidationMiddleware that calls next() whatever the schema says.
createValidationMiddlewareLenient(catchErrors, cl) ==
  IF Top(cl).stage = "start"
  THEN CallNext(Log(cl, "enter", Top(cl).who), "tail")
  ELSE TailResume(cl)


createValidationMiddleware(catchErrors, cl) ==
  IF Top(cl).stage = "start"
  THEN IF cl.cmd.schema = Undef
       THEN CallNext(Log(cl, "enter", Top(cl).who), "tail")
       ELSE IF SchemaAccepts(cl.cmd.schema, cl.params)
            THEN CallNext(Log(cl, "enter", Top(cl).who), "tail")
            ELSE IF catchErrors
                 THEN Return(Log(cl, "enter", Top(cl).who),
                             Result(FALSE, <<"Validation failed for", cl.cmd.id, ErrorText(ZodError)>>))
                 ELSE Raise(Log(cl, "enter", Top(cl).who), ZodError)
  ELSE TailResume(cl)

\* loggingMiddleware: console.log, await next(), console.log, return result.
loggingMiddleware(cl) ==
  IF Top(cl).stage = "start"
  THEN CallNext(Log(cl, "logExecuting", Top(cl).who), "awaiting")
  ELSE IF cl.ret.kind = "throw"
       THEN Raise(cl, cl.ret.err)
       ELSE Return(Log(cl, "logCompleted", Top(cl).who), cl.ret.res)

\* What the caller-supplied confirmFn does: resolves true, resolves false, or
\* rejects.
Answers == {"yes", "no", "rejects"}

\* The middleware made by createConfirmationMiddleware(confirmFn), confirmFn
\* giving `answer` when it is asked.
confirmationMiddleware(answer, cl) ==
  LET me == Top(cl).who
      entered == Log(cl, "enter", me)
  IN IF Top(cl).stage = "start"
     THEN IF cl.cmd.requiresConfirmation # Undef
          THEN IF answer = "rejects"
               THEN Raise(Log(entered, "confirmFailed", me), Error("confirm failed"))
               ELSE IF answer = "no"
                    THEN Return(Log(entered, "declined", me),
                                Result(FALSE, <<"Cancelled by user.">>))
                    ELSE CallNext(Log(entered, "confirmed", me), "tail")
          ELSE CallNext(entered, "tail")
     ELSE TailResume(cl)

\* A chain that ends in the handler of whatever is registered under the id
\* when the chain gets there.
handlerOfRegistered(cl) ==
  LET ran == [Log(cl, "handler", 0) EXCEPT !.received = cl.params]
      now == Lookup(commands, cl.id)
  IN IF now.execute = "ok" THEN Return(ran, Result(TRUE, <<>>))
     ELSE IF now.execute = "fail" THEN Return(ran, Result(FALSE, <<"nothing to do">>))
     ELSE Raise(ran, Error("command.execute is not a function"))

\* command.execute(params, context): the handler of the definition.
handler(cl) ==
  LET ran == [Log(cl, "handler", 0) EXCEPT !.received = cl.params]
  IN IF cl.cmd.execute = "ok" THEN Return(ran, Result(TRUE, <<>>))
     ELSE IF cl.cmd.execute = "fail" THEN Return(ran, Result(FALSE, <<"nothing to do">>))
     ELSE IF cl.cmd.execute = "failNoMessage" THEN Return(ran, Result(FALSE, <<>>))
     ELSE IF cl.cmd.execute = "throwsError" THEN Raise(ran, Error("boom"))
     ELSE Raise(ran, Thrown("bang"))

MiddlewareKinds ==
  {"pass", "blocker", "throwing", "retry", "validation", "errorBoundary",
   "validationSoft", "validationLoud"}

\* The middlewares of the registries that ask for confirmation.
ConfirmKinds == {"pass", "retry", "confirmation"}

(***************************************************************************)
(* Definitions used by the execution actions (all under the id "app.a")    *)
(***************************************************************************)
ExecId == "app.a"

ExecDefs ==
  {Cmd(ExecId, "E", Undef, Undef, Undef, "ok"),
   Cmd(ExecId, "E", Undef, Undef, Undef, "fail"),
   Cmd(ExecId, "E", Undef, Undef, Undef, "throwsError"),
   Cmd(ExecId, "E", Undef, Undef, Undef, "throwsValue"),
   Cmd(ExecId, "E", Undef, "schema", Undef, "ok"),
   Cmd(ExecId, "E", "ctx.ready", Undef, Undef, "ok"),
   Cmd(ExecId, "E", "ctx.off", Undef, Undef, "ok"),
   Cmd(ExecId, "E", Undef, Undef, "true", "ok"),
   Cmd(ExecId, "E", Undef, Undef, "false", "ok"),
   Cmd(ExecId, "E", Undef, Undef, "throws", "ok")}

\* Definitions for the two gates of execute: when-clauses and isEnabled
\* predicates, alone and together.
GateDefs ==
  {Cmd(ExecId, "E", Undef, Undef, Undef, "ok"),
   Cmd(ExecId, "E", "ctx.ready", Undef, Undef, "ok"),
   Cmd(ExecId, "E", "ctx.off", Undef, Undef, "ok"),
   Cmd(ExecId, "E", Undef, Undef, "true", "ok"),
   Cmd(ExecId, "E", Undef, Undef, "false", "ok"),
   Cmd(ExecId, "E", Undef, Undef, "throws", "ok"),
   Cmd(ExecId, "E", Undef, Undef, "ifPalette", "ok"),
   Cmd(ExecId, "E", "ctx.off", Undef, "true", "ok"),
   Cmd(ExecId, "E", "ctx.ready", Undef, "false", "ok")}

\* Definitions and middlewares of the registries built from the shipped
\* logging and validation middlewares.
PipelineDefs ==
  {Cmd(ExecId, "E", Undef, "schema", Undef, "ok"),
   Cmd(ExecId, "E", Undef, Undef, Undef, "ok"),
   Cmd(ExecId, "E", Undef, Undef, Undef, "failNoMessage"),
   Cmd(ExecId, "E", Undef, Undef, Undef, "throwsError")}

PipelineKinds == {"logging", "validation", "validationSoft", "validationLoud"}

\* The middlewares of the registries used for the gates.
GateKinds == {"pass", "blocker"}

\* Definitions with and without requiresConfirmation: true.
ConfirmDefs ==
  {Cmd(ExecId, "E", Undef, Undef, Undef, "ok"),
   WithConfirmation(Cmd(ExecId, "E", Undef, Undef, Undef, "ok")),
   WithConfirmation(Cmd(ExecId, "E", Undef, Undef, Undef, "fail")),
   WithConfirmation(Cmd(ExecId, "E", Undef, Undef, Undef, "throwsError")),
   WithMetadata(Cmd(ExecId, "E", Undef, Undef, Undef, "ok"), "true"),
   WithMetadata(WithConfirmation(Cmd(ExecId, "E", Undef, Undef, Undef, "ok")), "false")}

(***************************************************************************)
(* Definitions used by the listing queries: when-clauses that the lookup    *)
(* evaluator accepts ("ctx.ready") or rejects ("ctx.off"), with and without *)
(* an isVisible predicate, and one with an isEnabled predicate.             *)
(***************************************************************************)
VisA == Cmd("app.a", "A", "ctx.ready", Undef, Undef, "ok")

VisB == WithVisible(Cmd("app.a", "B", "ctx.off", Undef, Undef, "ok"), "always")

VisC == WithVisible(Cmd("7", "C", Undef, "schema", Undef, "ok"), "ifPalette")

VisD == WithVisible(Cmd("7", "D", "ctx.ready", Undef, Undef, "ok"), "never")

VisE == Cmd("constructor", "E", "ctx.off", Undef, "false", "ok")

ListDefs == {VisA, VisB, VisC, VisD, VisE}

ListBatches == SeqsUpTo(ListDefs, MaxBatch)

\* The object literals handed to defineCommand: complete ones, with and
\* without optional fields, and ones with a required field missing or empty.
RawDefs ==
  LET base == Cmd("app.a", "E", Undef, Undef, Undef, "ok")
  IN {base,
      [base EXCEPT !.tags = <<"t">>],
      WithMetadata(Cmd("7", "S", "ctx.ready", "schema", Undef, "ok"), "true"),
      WithConfirmation(Cmd("app.a", "F", Undef, Undef, "true", "fail")),
      [base EXCEPT !.id = Undef], [base EXCEPT !.id = ""],
      [base EXCEPT !.label = Undef], [base EXCEPT !.label = ""],
      [base EXCEPT !.category = Undef], [base EXCEPT !.category = ""],
      [base EXCEPT !.execute = Undef]}

\* The fields of a definition a caller assigns to.
Fields == {"id", "label", "tags", "execute"}

StoreState == [commands |-> commands, owners |-> owners]

\* No call outstanding: the caller has taken the outcome of the previous one.
NoCall ==
  [op |-> "none", key |-> Undef, cmds |-> <<>>, threw |-> FALSE,
   ret |-> Undef, notified |-> 0]

\* Who made the current registration of each id (history): "caller" for
\* register and registerAll, the owner for registerForOwner, "none" for an id
\* that is not registered.
ByCaller(cmds) == [id \in Ids |-> IF HasOwn(cmds, id) THEN "caller" ELSE "none"]

Registrars(op, key, cmds, out) ==
  [id \in Ids |->
     IF ~HasOwn(out.state.commands, id) THEN "none"
     ELSE IF /\ ~out.threw
             /\ op \in {"register", "registerAll", "registerForOwner"}
             /\ \E i \in 1..Len(cmds) : cmds[i].id = id
          THEN IF op = "registerForOwner" THEN key ELSE "caller"
          ELSE madeBy[id]]

\* No application context: the registries whose evaluator is not the
\* reference evaluateWhen.
NoAppContext == <<>>

\* new Map(), and no call made on the Map-backed registry yet.
EmptyMap == [commands |-> <<>>, threw |-> FALSE, ret |-> Undef]

\* One call of a mutating operation: the store takes the outcome's state, the
\* subscriber (if setState ran) observes the store as it then is, and the
\* caller is left with the outcome (the return value or the exception).
ApplyStore(op, key, cmds, out) ==
  /\ last = NoCall
  /\ commands' = out.state.commands
  /\ owners' = out.state.owners
  /\ last' = [op |-> op, key |-> key, cmds |-> cmds, threw |-> out.threw,
              ret |-> out.ret,
              notified |-> IF out.notify /\ subscribed THEN 1 ELSE 0]
  /\ seen' = IF out.notify /\ subscribed THEN out.state ELSE seen
  /\ madeBy' = Registrars(op, key, cmds, out)
  /\ UNCHANGED <<cfgVars, call, defined, other, appContext, subscribed>>

Apply(op, key, cmds, out) == ApplyStore(op, key, cmds, out) /\ UNCHANGED mapped

\* The caller takes the outcome and goes on to its next call.
TakeOutcome ==
  /\ last # NoCall
  /\ last' = NoCall
  /\ UNCHANGED <<commands, owners, seen, cfgVars, call, defined, madeBy, other, sideVars>>

Register(command) ==
  Apply("register", command.id, <<command>>, register(StoreState, command))

RegisterAll(cmds) ==
  Apply("registerAll", Undef, cmds, registerAll(StoreState, cmds))

Unregister(id) ==
  Apply("unregister", id, <<>>, unregister(StoreState, id))

RegisterForOwner(owner, cmds) ==
  Apply("registerForOwner", owner, cmds, registerForOwner(StoreState, owner, cmds))

UnregisterForOwner(owner) ==
  Apply("unregisterForOwner", owner, <<>>, unregisterForOwner(StoreState, owner))

\* The commands object with every reference to the object `old` showing the
\* object as it is after a mutation.
Aliased(obj, old, new) ==
  [i \in 1..Len(obj) |-> IF obj[i].val = old THEN [obj[i] EXCEPT !.val = new] ELSE obj[i]]

\* The caller builds a definition; it holds one definition object at a time
\* and builds the next when no registry holds the previous.
DefineCommand(def) ==
  /\ last = NoCall
  /\ commands = <<>>
  /\ LET out == defineCommand(def)
     IN /\ defined' = out.ret
        /\ last' = [op |-> "defineCommand", key |-> def.id, cmds |-> <<def>>,
                    threw |-> out.threw, ret |-> Undef, notified |-> 0]
  /\ UNCHANGED <<commands, owners, seen, cfgVars, call, madeBy, other, sideVars>>

\* The caller registers the definition it holds.
RegisterDefined == Truthy(defined) /\ Register(defined)

\* def[field] = value on the frozen definition: a TypeError in the strict
\* mode of a module, and no change.
AssignField(field) ==
  /\ last = NoCall
  /\ Truthy(defined)
  /\ last' = [op |-> "assign", key |-> field, cmds |-> <<>>,
              threw |-> TRUE, ret |-> Undef, notified |-> 0]
  /\ UNCHANGED <<commands, owners, seen, cfgVars, call, defined, madeBy, other, sideVars>>

\* def.tags.push(tag): Object.freeze froze the definition, not the array its
\* tags field refers to, so the push succeeds, and the store, which holds the
\* same object, shows it.
PushTag ==
  /\ last = NoCall
  /\ Truthy(defined)
  /\ Len(defined.tags) < MaxTags
  /\ defined' = [defined EXCEPT !.tags = Append(@, "pushed")]
  /\ commands' = Aliased(commands, defined, defined')
  /\ seen' = [seen EXCEPT !.commands = Aliased(@, defined, defined')]
  /\ last' = [op |-> "push", key |-> "tags", cmds |-> <<>>,
              threw |-> FALSE, ret |-> Undef, notified |-> 0]
  /\ UNCHANGED <<owners, cfgVars, call, madeBy, other, sideVars>>

\* The frame on top of the stack is ready to take a step: it has just been
\* invoked, or the next() it awaits has settled.
Ready(kind) ==
  /\ call.pc = "running"
  /\ call.stack # <<>>
  /\ Top(call).kind = kind
  /\ (Top(call).stage = "start" \/ call.ret.kind # "none")

StepTo(cl) ==
  /\ call' = cl
  /\ UNCHANGED <<regVars, cfgVars, defined, madeBy, other, sideVars>>

Execute(id, params, overrides) ==
  /\ call.pc \in {"idle", "done"}
  /\ StepTo(execute(commands, id, params, overrides))

PassMiddleware == Ready("pass") /\ StepTo(passMiddleware(call))

BlockerMiddleware == Ready("blocker") /\ StepTo(blockerMiddleware(call))

ThrowingMiddleware == Ready("throwing") /\ StepTo(throwingMiddleware(call))

RetryMiddleware == Ready("retry") /\ StepTo(retryMiddleware(call))

ValidationMiddleware == Ready("validation") /\ StepTo(validationMiddleware(call))

ErrorBoundaryMiddleware == Ready("errorBoundary") /\ StepTo(errorBoundaryMiddleware(call))

ValidationSoft == Ready("validationSoft") /\ StepTo(createValidationMiddleware(TRUE, call))

ValidationLoud == Ready("validationLoud") /\ StepTo(createValidationMiddleware(FALSE, call))

ConfirmationMiddleware ==
  /\ Ready("confirmation")
  /\ \E answer \in Answers : StepTo(confirmationMiddleware(answer, call))

LoggingMiddleware == Ready("logging") /\ StepTo(loggingMiddleware(call))

Handler == Ready("handler") /\ StepTo(handler(call))

ExecuteFinish ==
  /\ call.pc = "running"
  /\ call.stack = <<>>
  /\ call.ret.kind # "none"
  /\ StepTo(executeFinish(call))

Init ==
  /\ commands = <<>>
  /\ owners = <<>>
  /\ last = NoCall
  /\ seen = [commands |-> <<>>, owners |-> <<>>]
  /\ middleware = <<>>
  /\ evalMode = "default"
  /\ providerMode = "default"
  /\ call = IdleCall
  /\ defined = UndefinedValue
  /\ madeBy = ByCaller(commands)
  /\ other = IdleCall
  /\ appContext = NoAppContext
  /\ mapped = EmptyMap
  /\ subscribed = TRUE

Next ==
  \/ \E command \in RegDefs : Register(command)
  \/ \E cmds \in Batches : RegisterAll(cmds)
  \/ \E id \in Ids : Unregister(id)
  \/ \E owner \in Owners, cmds \in Batches : RegisterForOwner(owner, cmds)
  \/ \E owner \in Owners : UnregisterForOwner(owner)
  \/ TakeOutcome

Spec == Init /\ [][Next]_vars

\* A registry created with some configuration and holding one definition.
\* (evaluateWhen is only ever called for a definition that has a when-clause.)
InitExec ==
  /\ \E d \in ExecDefs : commands = register([commands |-> <<>>, owners |-> <<>>], d).state.commands
  /\ owners = <<>>
  /\ last = NoCall
  /\ seen = [commands |-> commands, owners |-> <<>>]
  /\ middleware \in SeqsUpTo(MiddlewareKinds, MaxMiddleware)
  /\ evalMode \in {"default", "lookup", "throws"}
  /\ commands[1].val.when = Undef => evalMode = "default"
  /\ providerMode \in {"default", "provides", "throws"}
  /\ call = IdleCall
  /\ defined = UndefinedValue
  /\ madeBy = ByCaller(commands)
  /\ other = IdleCall
  /\ appContext = NoAppContext
  /\ mapped = EmptyMap
  /\ subscribed = TRUE

NextExec ==
  \/ \E id \in Ids, params \in Params, overrides \in ContextOverrides :
        Execute(id, params, overrides)
  \/ PassMiddleware
  \/ BlockerMiddleware
  \/ ThrowingMiddleware
  \/ RetryMiddleware
  \/ ValidationMiddleware
  \/ ErrorBoundaryMiddleware
  \/ ValidationSoft
  \/ ValidationLoud
  \/ Handler
  \/ ExecuteFinish

SpecExec == InitExec /\ [][NextExec]_vars

\* A registry created with some evaluator and contextProvider and a short
\* middleware list, holding one definition with a when-clause, an isEnabled
\* predicate, both or neither.
InitGate ==
  /\ \E d \in GateDefs : commands = register([commands |-> <<>>, owners |-> <<>>], d).state.commands
  /\ owners = <<>>
  /\ last = NoCall
  /\ seen = [commands |-> commands, owners |-> <<>>]
  /\ middleware \in SeqsUpTo(GateKinds, MaxMiddleware)
  /\ evalMode \in {"default", "lookup", "throws"}
  /\ commands[1].val.when = Undef => evalMode = "default"
  /\ providerMode \in {"default", "provides", "throws"}
  /\ call = IdleCall
  /\ defined = UndefinedValue
  /\ madeBy = ByCaller(commands)
  /\ other = IdleCall
  /\ appContext = NoAppContext
  /\ mapped = EmptyMap
  /\ subscribed = TRUE

NextGate ==
  \/ \E id \in Ids, params \in Params, overrides \in ContextOverrides :
        Execute(id, params, overrides)
  \/ PassMiddleware
  \/ BlockerMiddleware
  \/ Handler
  \/ ExecuteFinish

SpecGate == InitGate /\ [][NextGate]_vars

\* A registry created with a list of the shipped logging and validation
\* middlewares, holding one definition.
InitPipeline ==
  /\ \E d \in PipelineDefs : commands = register([commands |-> <<>>, owners |-> <<>>], d).state.commands
  /\ owners = <<>>
  /\ last = NoCall
  /\ seen = [commands |-> commands, owners |-> <<>>]
  /\ middleware \in SeqsUpTo(PipelineKinds, MaxMiddleware)
  /\ evalMode = "default"
  /\ providerMode = "default"
  /\ call = IdleCall
  /\ defined = UndefinedValue
  /\ madeBy = ByCaller(commands)
  /\ other = IdleCall
  /\ appContext = NoAppContext
  /\ mapped = EmptyMap
  /\ subscribed = TRUE

NextPipeline ==
  \/ \E id \in Ids, params \in PipelineParams, overrides \in ContextOverrides :
        Execute(id, params, overrides)
  \/ LoggingMiddleware
  \/ ValidationMiddleware
  \/ ValidationSoft
  \/ ValidationLoud
  \/ Handler
  \/ ExecuteFinish

SpecPipeline == InitPipeline /\ [][NextPipeline]_vars

\* A caller that builds definitions with defineCommand, registers and
\* unregisters them, and tries to change them afterwards.
InitDefine ==
  /\ commands = <<>>
  /\ owners = <<>>
  /\ last = NoCall
  /\ seen = [commands |-> <<>>, owners |-> <<>>]
  /\ middleware = <<>>
  /\ evalMode = "default"
  /\ providerMode = "default"
  /\ call = IdleCall
  /\ defined = UndefinedValue
  /\ madeBy = ByCaller(commands)
  /\ other = IdleCall
  /\ appContext = NoAppContext
  /\ mapped = EmptyMap
  /\ subscribed = TRUE

NextDefine ==
  \/ \E def \in RawDefs : DefineCommand(def)
  \/ RegisterDefined
  \/ \E id \in Ids : Unregister(id)
  \/ \E field \in Fields : AssignField(field)
  \/ PushTag
  \/ TakeOutcome

SpecDefine == InitDefine /\ [][NextDefine]_vars

\* Two execute calls in flight.  `call` is the one whose continuation runs
\* next; a call suspended at an await waits in `other`.  The index of
\* runMiddleware and the context are locals of each call.
ConcA == Cmd("app.a", "A", Undef, Undef, Undef, "ok")

ConcN == Cmd("7", "N", Undef, Undef, Undef, "fail")

ConcKinds == {"pass"}

\* A scheduler under which the index of runMiddleware is one variable for
\* every call.
YieldSharingIndex ==
  /\ call' = [other EXCEPT !.index = call.index]
  /\ other' = call
  /\ UNCHANGED <<regVars, cfgVars, defined, madeBy, sideVars>>

\* The running continuation reaches an await (or the caller starts another
\* call): the event loop resumes the other call.
Yield ==
  /\ call' = other
  /\ other' = call
  /\ UNCHANGED <<regVars, cfgVars, defined, madeBy, sideVars>>

InitConcurrent ==
  /\ commands = registerAll([commands |-> <<>>, owners |-> <<>>], <<ConcA, ConcN>>).state.commands
  /\ owners = <<>>
  /\ last = NoCall
  /\ seen = [commands |-> commands, owners |-> <<>>]
  /\ middleware \in SeqsUpTo(ConcKinds, MaxMiddleware)
  /\ evalMode = "default"
  /\ providerMode = "default"
  /\ call = IdleCall
  /\ defined = UndefinedValue
  /\ madeBy = ByCaller(commands)
  /\ other = IdleCall
  /\ appContext = NoAppContext
  /\ mapped = EmptyMap
  /\ subscribed = TRUE

NextConcurrent ==
  \/ \E id \in Ids, params \in Params, overrides \in ContextOverrides :
        Execute(id, params, overrides)
  \/ PassMiddleware
  \/ Handler
  \/ ExecuteFinish
  \/ Yield

SpecConcurrent == InitConcurrent /\ [][NextConcurrent]_vars

\* An execute call in flight while the registry is mutated: two definitions
\* of one id, registered, replaced and removed between the steps of the call.
MutA1 == Cmd("app.a", "A1", Undef, Undef, Undef, "ok")

MutA2 == Cmd("app.a", "A2", Undef, Undef, Undef, "fail")

MutDefs == {MutA1, MutA2}

InitMutate ==
  /\ commands = <<>>
  /\ owners = <<>>
  /\ last = NoCall
  /\ seen = [commands |-> <<>>, owners |-> <<>>]
  /\ middleware \in SeqsUpTo(ConcKinds, MaxMiddleware)
  /\ evalMode = "default"
  /\ providerMode = "default"
  /\ call = IdleCall
  /\ defined = UndefinedValue
  /\ madeBy = ByCaller(commands)
  /\ other = IdleCall
  /\ appContext = NoAppContext
  /\ mapped = EmptyMap
  /\ subscribed = TRUE

NextMutate ==
  \/ \E params \in Params : Execute("app.a", params, <<>>)
  \/ PassMiddleware
  \/ Handler
  \/ ExecuteFinish
  \/ \E command \in MutDefs : Register(command)
  \/ Unregister("app.a")
  \/ \E command \in MutDefs : RegisterForOwner("panelA", <<command>>)
  \/ UnregisterForOwner("panelA")
  \/ TakeOutcome

SpecMutate == InitMutate /\ [][NextMutate]_vars

\* The reference evaluator called on the clause string of an expression,
\* over an app state that defines the keys of WhenKeys.
EvaluateWhen(clause) ==
  /\ last = NoCall
  /\ last' = [op |-> "evaluateWhen", key |-> Render(clause), cmds |-> <<clause>>,
              threw |-> FALSE,
              ret |-> BoolText(evaluateWhenReference(appContext, Render(clause))),
              notified |-> 0]
  /\ UNCHANGED <<commands, owners, seen, cfgVars, call, defined, madeBy, other, sideVars>>

InitWhen ==
  /\ commands = <<>>
  /\ owners = <<>>
  /\ last = NoCall
  /\ seen = [commands |-> <<>>, owners |-> <<>>]
  /\ middleware = <<>>
  /\ evalMode = "default"
  /\ providerMode = "default"
  /\ call = IdleCall
  /\ defined = UndefinedValue
  /\ madeBy = ByCaller(commands)
  /\ other = IdleCall
  /\ appContext \in [WhenKeys -> BOOLEAN]
  /\ mapped = EmptyMap
  /\ subscribed = TRUE

NextWhen ==
  \/ \E clause \in Clauses : EvaluateWhen(clause)
  \/ TakeOutcome

SpecWhen == InitWhen /\ [][NextWhen]_vars

\* The same call made on a store-backed and on a Map-backed registry created
\* from the same configuration.
BothRegister(command) ==
  /\ ApplyStore("register", command.id, <<command>>, register(StoreState, command))
  /\ mapped' = mapRegister(mapped.commands, command)

BothRegisterAll(cmds) ==
  /\ ApplyStore("registerAll", Undef, cmds, registerAll(StoreState, cmds))
  /\ mapped' = mapRegisterAll(mapped.commands, cmds)

BothUnregister(id) ==
  /\ ApplyStore("unregister", id, <<>>, unregister(StoreState, id))
  /\ mapped' = mapUnregister(mapped.commands, id)

InitBoth ==
  /\ commands = <<>>
  /\ owners = <<>>
  /\ last = NoCall
  /\ seen = [commands |-> <<>>, owners |-> <<>>]
  /\ middleware = <<>>
  /\ evalMode \in {"default", "lookup"}
  /\ providerMode = "default"
  /\ call = IdleCall
  /\ defined = UndefinedValue
  /\ madeBy = ByCaller(commands)
  /\ other = IdleCall
  /\ appContext = NoAppContext
  /\ mapped = EmptyMap
  /\ subscribed = TRUE

NextBoth ==
  \/ \E command \in RegDefs : BothRegister(command)
  \/ \E cmds \in Batches : BothRegisterAll(cmds)
  \/ \E id \in Ids : BothUnregister(id)
  \/ TakeOutcome

SpecBoth == InitBoth /\ [][NextBoth]_vars

\* subscribe(listener): store.subscribe adds the listener.
Subscribe ==
  /\ last = NoCall
  /\ ~subscribed
  /\ subscribed' = TRUE
  /\ UNCHANGED <<regVars, cfgVars, call, defined, madeBy, other, appContext, mapped>>

\* The function subscribe returned is called: the listener is removed.
Unsubscribe ==
  /\ last = NoCall
  /\ subscribed
  /\ subscribed' = FALSE
  /\ UNCHANGED <<regVars, cfgVars, call, defined, madeBy, other, appContext, mapped>>

\* The definitions and batches of the calls a listener watches: a free id, a
\* duplicate, a prototype-named id, an empty batch, a batch repeating an id.
SubDefs == {CmdA1, CmdA2, CmdP}

SubBatches == {<<>>, <<CmdA1>>, <<CmdA1, CmdA2>>, <<CmdP>>}

\* A registry nobody has subscribed to yet.
InitSubscribe ==
  /\ commands = <<>>
  /\ owners = <<>>
  /\ last = NoCall
  /\ seen = [commands |-> <<>>, owners |-> <<>>]
  /\ middleware = <<>>
  /\ evalMode = "default"
  /\ providerMode = "default"
  /\ call = IdleCall
  /\ defined = UndefinedValue
  /\ madeBy = ByCaller(commands)
  /\ other = IdleCall
  /\ appContext = NoAppContext
  /\ mapped = EmptyMap
  /\ subscribed = FALSE

NextSubscribe ==
  \/ Subscribe
  \/ Unsubscribe
  \/ \E command \in SubDefs : Register(command)
  \/ \E cmds \in SubBatches : RegisterAll(cmds)
  \/ \E id \in Ids : Unregister(id)
  \/ \E owner \in Owners, cmds \in SubBatches : RegisterForOwner(owner, cmds)
  \/ \E owner \in Owners : UnregisterForOwner(owner)
  \/ TakeOutcome

SpecSubscribe == InitSubscribe /\ [][NextSubscribe]_vars

\* A registry created with a confirmation middleware somewhere in its list,
\* holding one definition.
InitConfirm ==
  /\ \E d \in ConfirmDefs : commands = register([commands |-> <<>>, owners |-> <<>>], d).state.commands
  /\ owners = <<>>
  /\ last = NoCall
  /\ seen = [commands |-> commands, owners |-> <<>>]
  /\ middleware \in SeqsUpTo(ConfirmKinds, MaxMiddleware)
  /\ evalMode = "default"
  /\ providerMode \in {"default", "provides"}
  /\ call = IdleCall
  /\ defined = UndefinedValue
  /\ madeBy = ByCaller(commands)
  /\ other = IdleCall
  /\ appContext = NoAppContext
  /\ mapped = EmptyMap
  /\ subscribed = TRUE

NextConfirm ==
  \/ \E id \in Ids, params \in Params, overrides \in ContextOverrides :
        Execute(id, params, overrides)
  \/ PassMiddleware
  \/ RetryMiddleware
  \/ ConfirmationMiddleware
  \/ Handler
  \/ ExecuteFinish

SpecConfirm == InitConfirm /\ [][NextConfirm]_vars

\* A registry created with or without an evaluator and a contextProvider,
\* filled and emptied through register, unregister and registerForOwner.
InitList ==
  /\ commands = <<>>
  /\ owners = <<>>
  /\ last = NoCall
  /\ seen = [commands |-> <<>>, owners |-> <<>>]
  /\ middleware = <<>>
  /\ evalMode \in {"default", "lookup"}
  /\ providerMode \in {"default", "provides"}
  /\ call = IdleCall
  /\ defined = UndefinedValue
  /\ madeBy = ByCaller(commands)
  /\ other = IdleCall
  /\ appContext = NoAppContext
  /\ mapped = EmptyMap
  /\ subscribed = TRUE

NextList ==
  \/ \E command \in ListDefs : Register(command)
  \/ \E id \in Ids : Unregister(id)
  \/ \E cmds \in ListBatches : RegisterForOwner("panelA", cmds)
  \/ TakeOutcome

SpecList == InitList /\ [][NextList]_vars

(***************************************************************************)
(* Properties                                                               *)
(***************************************************************************)
\* A step that is one call of the registry operation `op`.
Called(op) == last = NoCall /\ last'.op = op

HandlerRan == \E i \in 1..Len(call.trace) : call.trace[i].ev = "handler"

\* C1: register(def) succeeds exactly when def.id is not currently registered,
\* and get(def.id) then returns def; when def.id is registered it throws and
\* leaves get(def.id), size, list() and the owner index as they were.
C1_RegisterSucceedsIffAbsent ==
  [][Called("register") =>
       LET def == last'.cmds[1]
       IN /\ last'.threw <=> Registered(commands, def.id)
          /\ ~last'.threw => get(commands', def.id) = def
          /\ last'.threw => /\ get(commands', def.id) = get(commands, def.id)
                            /\ size(commands') = size(commands)
                            /\ list(commands') = list(commands)
                            /\ owners' = owners]_vars

C3_ExecuteNeverRejects == call.settled # "rejected"

\* C4: execute of an id that is not registered resolves to success=false with
\* a message containing the id, and invokes no middleware, no contextProvider
\* and no handler.
C4_UnknownIdFailsUntouched ==
  (call.pc = "done" /\ ~Registered(commands, call.id)) =>
     /\ call.settled = "resolved"
     /\ ~call.result.success
     /\ Contains(call.result.message, call.id)
     /\ call.trace = <<>>

AllPass == \A i \in 1..Len(middleware) : middleware[i] = "pass"

PipelineEvents(trace) ==
  SelectSeq(trace, LAMBDA e : e.ev \in {"before", "after", "handler"})

\* m1-before, ..., mn-before, handler, mn-after, ..., m1-after
Onion(n) ==
  [i \in 1..(2 * n + 1) |->
     IF i <= n THEN Event("before", i)
     ELSE IF i = n + 1 THEN Event("handler", 0)
     ELSE Event("after", 2 * n + 2 - i)]

\* C5: for a list [m1..mn] of middlewares that record before and after
\* awaiting next(), a call whose handler returns produces m1-before, ...,
\* mn-before, handler, mn-after, ..., m1-after.  (When the handler throws, the
\* awaits reject and the recorded order is the same up to the handler.)
C5_MiddlewareOrder ==
  (call.pc = "done" /\ AllPass /\ HandlerRan) =>
     IF call.ret.kind = "value"
     THEN PipelineEvents(call.trace) = Onion(Len(middleware))
     ELSE PipelineEvents(call.trace) = SubSeq(Onion(Len(middleware)), 1, Len(middleware) + 1)

\* Two recording middlewares around a handler that returned.
C5_Witness ==
  /\ call.pc = "done"
  /\ middleware = <<"pass", "pass">>
  /\ call.ret.kind = "value"
  /\ PipelineEvents(call.trace) =
       <<Event("before", 1), Event("before", 2), Event("handler", 0),
         Event("after", 2), Event("after", 1)>>

\* C6: the handler of a call runs only after every middleware of the chain
\* has called next() in that call, whatever the middlewares do.
C6_HandlerOnlyAfterEveryNext ==
  HandlerRan => call.calledNext = 1..Len(middleware)

HasValidation ==
  \E i \in 1..Len(middleware) :
    middleware[i] \in {"validation", "validationSoft", "validationLoud"}

\* C7: with a validation middleware in the chain and a schema declared, the
\* handler is never invoked in a call whose params the schema rejects.
C7_RejectedParamsNeverReachHandler ==
  (/\ call.pc # "idle"
   /\ HasValidation
   /\ call.cmd.schema # Undef
   /\ ~SchemaAccepts(call.cmd.schema, call.params)) => ~HandlerRan

Range(q) == {q[i] : i \in 1..Len(q)}

\* C8: after registerForOwner(o, defs) the ids of o's previous call that defs
\* does not name are no longer registered, every definition of defs is
\* registered under its id, and the owner index maps o to the ids of defs.
C8_OwnerReplace ==
  [][Called("registerForOwner") =>
       LET o == last'.key
           defs == last'.cmds
           oldIds == Range(OwnerIds(owners, o).ids)
       IN /\ \A id \in oldIds \ Range(IdsOf(defs)) : ~Registered(commands', id)
          /\ \A i \in 1..Len(defs) : Registered(commands', defs[i].id)
          /\ \A i \in 1..Len(defs) : get(commands', defs[i].id) = defs[i]
          /\ HasOwn(owners', o)
          /\ OwnerIds(owners', o) = ArrayOf(IdsOf(defs))]_vars

\* The definition of defs that ends up under id: the last one carrying it.
LastWith(defs, id) ==
  defs[CHOOSE i \in 1..Len(defs) :
         defs[i].id = id /\ \A j \in (i + 1)..Len(defs) : defs[j].id # id]

\* C9: registerForOwner changes the store in one transition: the store goes
\* from the complete pre-call state (when the call throws) or straight to the
\* complete post-call state (old ids removed and new ids added at once), and
\* the one notification of the subscribers observes that post-call state.
C9_OwnerSwapAtomic ==
  [][Called("registerForOwner") =>
       LET o == last'.key
           defs == last'.cmds
           oldIds == Range(OwnerIds(owners, o).ids)
           newIds == Range(IdsOf(defs))
       IN IF last'.threw
          THEN /\ UNCHANGED <<commands, owners, seen>>
               /\ last'.notified = 0
          ELSE /\ Mapping(commands') =
                    {p \in Mapping(commands) : p[1] \notin oldIds \cup newIds}
                      \cup {<<id, LastWith(defs, id)>> : id \in newIds}
               /\ OwnerIds(owners', o) = ArrayOf(IdsOf(defs))
               /\ ObjDelete(owners', o) = ObjDelete(owners, o)
               /\ last'.notified = 1
               /\ seen' = [commands |-> commands', owners |-> owners']]_vars

\* An owner replaced [app.a, 7] by [constructor]: the old ids are gone and the
\* new one is there, and the subscriber saw exactly that state.
C9_Witness ==
  /\ last.op = "registerForOwner"
  /\ ~last.threw
  /\ last.cmds = <<CmdP>>
  /\ OwnKeys(commands) = <<"constructor">>
  /\ OwnerIds(owners, last.key) = ArrayOf(<<"constructor">>)
  /\ seen = StoreState
  /\ last.notified = 1

\* C10: registerForOwner never throws, and calling it twice in a row with the
\* same owner and definitions leaves the id-to-definition mapping and the
\* owner index as the first call left them.
C10_OwnerRegistrationIdempotent ==
  [][Called("registerForOwner") =>
       LET again == registerForOwner([commands |-> commands', owners |-> owners'],
                                     last'.key, last'.cmds)
       IN /\ ~last'.threw
          /\ ~again.threw
          /\ Mapping(again.state.commands) = Mapping(commands')
          /\ again.state.owners = owners']_vars

\* C11: unregisterForOwner(o) removes exactly the ids that o's most recent
\* registerForOwner recorded and forgets o's record, leaving every other
\* command and every other owner's record as they were; for an owner with no
\* record (any owner string) it changes nothing and does not throw.
C11_UnregisterForOwnerExact ==
  [][Called("unregisterForOwner") =>
       LET o == last'.key
       IN IF HasOwn(owners, o)
          THEN LET ids == Range(OwnerIds(owners, o).ids)
               IN /\ ~last'.threw
                  /\ Mapping(commands') = {p \in Mapping(commands) : p[1] \notin ids}
                  /\ ~HasOwn(owners', o)
                  /\ owners' = ObjDelete(owners, o)
          ELSE /\ ~last'.threw
               /\ UNCHANGED <<commands, owners>>]_vars

\* C12: unregister(id) returns true and removes exactly that id when it is
\* registered, returns false and changes nothing when it is not; it never
\* throws and leaves every other registered command as it was.
C12_UnregisterReportsRemoval ==
  [][Called("unregister") =>
       LET id == last'.key
       IN /\ ~last'.threw
          /\ IF Registered(commands, id)
             THEN /\ last'.ret = "true"
                  /\ Mapping(commands') = {p \in Mapping(commands) : p[1] # id}
             ELSE /\ last'.ret = "false"
                  /\ last'.notified = 0
                  /\ UNCHANGED <<commands, owners>>]_vars

\* The definition registered under id (id is registered).
DefOf(cmds, id) ==
  list(cmds)[CHOOSE i \in 1..Len(list(cmds)) : list(cmds)[i].id = id]

\* C13: for every id, isAvailable(id) is false when id is not registered, true
\* when the registered definition has no when-clause, and otherwise the
\* evaluator's result for that clause; with no evaluator configured it is true
\* for every registered id.
C13_IsAvailable ==
  \A id \in Ids :
    /\ isAvailable(commands, id) =
         IF ~Registered(commands, id) THEN FALSE
         ELSE IF DefOf(commands, id).when = Undef THEN TRUE
         ELSE evaluateWhen(DefOf(commands, id).when)
    /\ (evalMode = "default" /\ Registered(commands, id)) => isAvailable(commands, id)

\* q is p with some elements left out, in p's order.
RECURSIVE IsSubSeq(_, _)
IsSubSeq(q, p) ==
  IF q = <<>> THEN TRUE
  ELSE IF p = <<>> THEN FALSE
  ELSE IF Head(q) = Head(p) THEN IsSubSeq(Tail(q), Tail(p))
  ELSE IsSubSeq(q, Tail(p))

C15_IsVisibleOverridesWhen ==
  \A context \in VisibleContexts :
    \A c \in Range(list(commands)) :
      c.isVisible # Undef =>
        (c \in Range(listVisible(commands, context))
           <=> Predicate(c.isVisible, ContextOrBuilt(context)))

Invoked(ev) == \E i \in 1..Len(call.trace) : call.trace[i].ev = ev

\* C16: execute on a registered command whose when-clause the evaluator
\* rejects resolves to success=false with a message naming the id and the
\* when expression, and invokes neither the contextProvider, nor isEnabled,
\* nor a middleware, nor the handler; a command whose when-clause is accepted
\* or absent goes on to build its context for the pipeline.
C16_WhenGate ==
  (call.pc # "idle" /\ Registered(commands, call.id) /\ evalMode # "throws") =>
     IF call.cmd.when # Undef /\ ~evaluateWhen(call.cmd.when)
     THEN /\ call.pc = "done"
          /\ call.settled = "resolved"
          /\ ~call.result.success
          /\ Contains(call.result.message, call.id)
          /\ Contains(call.result.message, call.cmd.when)
          /\ call.trace = <<Event("evaluateWhen", 0)>>
          /\ call.calledNext = {}
     ELSE /\ Invoked("contextProvider")
          /\ ~Contains(call.result.message, "is not available in the current context (when:")

\* A command with when "ctx.off" and an isEnabled predicate, under the lookup
\* evaluator, a contextProvider and a middleware list: refused at the gate.
C16_Witness ==
  /\ call.pc = "done"
  /\ evalMode = "lookup"
  /\ providerMode = "provides"
  /\ middleware # <<>>
  /\ call.cmd.when = "ctx.off"
  /\ call.cmd.isEnabled = "true"
  /\ call.result =
       Result(FALSE, <<"Command", ExecId,
                       "is not available in the current context (when:", "ctx.off">>)
  /\ call.trace = <<Event("evaluateWhen", 0)>>

\* The registry with every isEnabled predicate removed.
WithoutEnabled(def) == [def EXCEPT !.isEnabled = Undef]

EraseEnabled(cmds) ==
  [i \in 1..Len(cmds) |-> [key |-> cmds[i].key, val |-> WithoutEnabled(cmds[i].val)]]

EraseAll(defs) == [i \in 1..Len(defs) |-> WithoutEnabled(defs[i])]

\* C17: execute on a command whose isEnabled returns false for the context
\* built for the call resolves to success=false with the 'currently disabled'
\* message and invokes no middleware and no handler; isEnabled has no effect
\* on list, listAvailable, listVisible or isAvailable.
C17_EnabledGate ==
  /\ (/\ call.pc # "idle"
      /\ Invoked("contextProvider")
      /\ providerMode # "throws"
      /\ call.cmd.isEnabled \notin {Undef, "throws"}
      /\ ~Predicate(call.cmd.isEnabled, call.ctx)) =>
        /\ call.pc = "done"
        /\ call.settled = "resolved"
        /\ call.result = Result(FALSE, <<"Command", call.id, "is currently disabled.">>)
        /\ call.stack = <<>>
        /\ call.calledNext = {}
        /\ \A i \in 1..Len(call.trace) :
             call.trace[i].ev \in {"evaluateWhen", "contextProvider", "isEnabled"}
  /\ (evalMode # "throws" /\ providerMode # "throws") =>
       /\ list(EraseEnabled(commands)) = EraseAll(list(commands))
       /\ listAvailable(EraseEnabled(commands)) = EraseAll(listAvailable(commands))
       /\ \A context \in VisibleContexts :
            listVisible(EraseEnabled(commands), context) =
              EraseAll(listVisible(commands, context))
       /\ \A id \in Ids : isAvailable(EraseEnabled(commands), id) = isAvailable(commands, id)

\* A command enabled only for the palette is executed from an unknown source
\* under a non-empty middleware list: refused, and still listed and available.
C17_Witness ==
  /\ call.pc = "done"
  /\ middleware # <<>>
  /\ call.cmd.isEnabled = "ifPalette"
  /\ call.ctx.source = "unknown"
  /\ call.result = Result(FALSE, <<"Command", ExecId, "is currently disabled.">>)
  /\ call.cmd \in Range(listVisible(commands, NoContext))
  /\ isAvailable(commands, call.id)

\* C18: the context handed to the chain and the handler is the merge of the
\* contextProvider's result with the call's contextOverrides: every key of
\* contextOverrides has the override's value, and every key the provider sets
\* and contextOverrides does not (source included) has the provider's value.
C18_ContextMerge ==
  (call.pc # "idle" /\ Invoked("contextProvider") /\ providerMode # "throws") =>
     /\ \A k \in DOMAIN call.overrides : call.ctx[k] = call.overrides[k]
     /\ \A k \in DOMAIN contextProvider \ DOMAIN call.overrides :
          call.ctx[k] = contextProvider[k]

Flagged == call.cmd.requiresConfirmation # Undef

Cancelled == Result(FALSE, <<"Cancelled by user.">>)

\* The answers confirmFn gave to the confirmation middleware at position i.
Asked(i) ==
  SelectSeq(call.trace,
            LAMBDA e : e.who = i /\ e.ev \in {"confirmed", "declined", "confirmFailed"})

Entered(i) == Event("enter", i) \in Range(call.trace)

\* C20: with the confirmation middleware in the chain, for a command whose
\* confirmation flag is set the confirm predicate is invoked once; if it
\* returns false the result is exactly {success:false, message:'Cancelled by
\* user.'} and neither next() nor the handler is invoked; if it returns true,
\* next() is called.  For a command whose flag is not set the confirm
\* predicate is never invoked and next() is always called.
C20_Confirmation ==
  /\ [](\A i \in 1..Len(middleware) :
          (middleware[i] = "confirmation" /\ Entered(i)) =>
             IF Flagged
             THEN /\ Len(Asked(i)) = 1
                  /\ Asked(i)[1].ev = "declined" => (i \notin call.calledNext /\ ~HandlerRan)
                  /\ Asked(i)[1].ev = "confirmed" => i \in call.calledNext
             ELSE /\ Asked(i) = <<>>
                  /\ i \in call.calledNext)
  /\ [][(/\ Ready("confirmation")
         /\ Len(call'.trace) > Len(call.trace)
         /\ call'.trace[Len(call'.trace)].ev = "declined") =>
           call'.ret = Returns(Cancelled)]_vars

HasConfirmation == \E i \in 1..Len(middleware) : middleware[i] = "confirmation"

\* C21: metadata.requiresConfirmation wins over the requiresConfirmation
\* shorthand: the confirmation middleware asks the confirm predicate exactly
\* for the commands whose effective flag (resolveMetadata) is true, and no
\* command whose effective flag is true reaches its handler without the
\* confirm predicate having returned true.
C21_EffectiveFlagConfirmed ==
  /\ \A i \in 1..Len(middleware) :
       (middleware[i] = "confirmation" /\ Entered(i)) =>
          (Asked(i) # <<>> <=> resolveMetadata(call.cmd).requiresConfirmation)
  /\ (HasConfirmation /\ resolveMetadata(call.cmd).requiresConfirmation /\ HandlerRan) =>
        Invoked("confirmed")

\* C22: every result with success=false that execute returns carries a
\* non-empty message, whichever layer produced the failure.
C22_FailureHasMessage ==
  (call.pc = "done" /\ call.settled = "resolved" /\ ~call.result.success) =>
     call.result.message # <<>>

Lines(i, ev) == SelectSeq(call.trace, LAMBDA e : e.who = i /\ e.ev = ev)

OnStack(i) == \E j \in 1..Len(call.stack) : call.stack[j].who = i

\* C28: loggingMiddleware records a pre-call line, calls next() once, records
\* a post-call line after next() settles, whether next() resolves or throws,
\* and passes next()'s outcome on unchanged.
C28_LoggingObserver ==
  /\ [](\A i \in 1..Len(middleware) :
          (middleware[i] = "logging" /\ Lines(i, "logExecuting") # <<>>) =>
             /\ Len(Lines(i, "logExecuting")) = 1
             /\ i \in call.calledNext
             /\ ~OnStack(i) => Len(Lines(i, "logCompleted")) = 1)
  /\ [][(Ready("logging") /\ Top(call).stage # "start") =>
          (call'.ret = call.ret /\ call'.index = call.index)]_vars

\* C30: with a validation middleware configured and a schema that accepts the
\* params passed to execute, the handler is handed the schema's parsed
\* (coerced, defaulted) output, not the raw input.
C30_HandlerGetsParsedParams ==
  (/\ HandlerRan
   /\ HasValidation
   /\ call.cmd.schema # Undef
   /\ SchemaAccepts(call.cmd.schema, call.params)) =>
      call.received = SchemaParse(call.cmd.schema, call.params)

\* C24: listDescriptors() returns one descriptor per registered command, in
\* list() order, none of them holding the handler or the isVisible/isEnabled
\* functions, with portableSchema present exactly when the command declares a
\* schema: the converter's output, or {type:'object'} without a converter.
C24_DescriptorProjection ==
  \A conv \in Converters \ {"throws"} :
    LET out == listDescriptors(commands, conv)
        all == list(commands)
    IN /\ ~out.threw
       /\ Len(out.ret) = Len(all)
       /\ \A i \in 1..Len(all) :
            LET d == out.ret[i]
            IN /\ d.id = all[i].id
               /\ d.label = all[i].label
               /\ d.category = all[i].category
               /\ d.when = all[i].when
               /\ DOMAIN d \cap {"execute", "isVisible", "isEnabled"} = {}
               /\ Truthy(d.portableSchema) <=> (all[i].schema # Undef)
               /\ all[i].schema # Undef =>
                    d.portableSchema = IF conv = Undef
                                       THEN [type |-> "object"]
                                       ELSE [type |-> "object", of |-> all[i].schema]

\* Two registered commands, the first listed declaring a schema and the other
\* not: the descriptors carry a rendered schema and none, in list() order.
C24_Witness ==
  /\ Len(list(commands)) = 2
  /\ list(commands)[1].schema # Undef
  /\ list(commands)[2].schema = Undef
  /\ Truthy(listDescriptors(commands, "json").ret[1].portableSchema)
  /\ ~Truthy(listDescriptors(commands, Undef).ret[2].portableSchema)

\* C25: listDescriptors never fails: for every registry state and every
\* converter, one that throws included, it returns a descriptor list, the
\* schema degrading to the generic {type:'object'}.
C25_DescriptorsNeverFail ==
  \A conv \in Converters :
    LET out == listDescriptors(commands, conv)
    IN /\ ~out.threw
       /\ Len(out.ret) = Len(list(commands))
       /\ \A i \in 1..Len(out.ret) :
            (list(commands)[i].schema # Undef /\ convert(conv, list(commands)[i].schema).kind = "throw")
               => out.ret[i].portableSchema = [type |-> "object"]

\* C26: defineCommand throws exactly when id, label, category or execute is
\* missing or empty, otherwise returns a definition carrying every supplied
\* field unchanged, and touches no registry.
C26_DefineCommandGate ==
  [][Called("defineCommand") =>
       LET def == last'.cmds[1]
           missing == \E f \in {"id", "label", "category", "execute"} :
                         def[f] \in {Undef, ""}
       IN /\ last'.threw <=> missing
          /\ ~missing => defined' = def
          /\ UNCHANGED <<commands, owners, seen>>]_vars

\* defineCommand returned a definition with optional fields set, and it was
\* registered as it was supplied.
C26_Witness ==
  /\ Truthy(defined)
  /\ defined.schema # Undef
  /\ defined.metadata.requiresConfirmation = "true"
  /\ defined \in RawDefs
  /\ get(commands, defined.id) = defined

\* C27: a definition returned by defineCommand is immutable: nothing a caller
\* does afterwards changes any of its fields, the contents of its nested
\* values included, so a registry holding it observes the values it was
\* constructed with.
C27_DefinitionImmutable ==
  [][(Called("assign") \/ Called("push")) =>
       (defined' = defined /\ commands' = commands)]_vars

\* C29: list() returns every registered definition exactly once, in the order
\* in which the currently registered ids were registered, for every id
\* string: a successful register appends to list(), an unregister removes its
\* entry and keeps the order of the others, and size is the length of list().
C29_ListRegistrationOrder ==
  /\ [](/\ size(commands) = Len(list(commands))
        /\ \A i, j \in 1..Len(list(commands)) :
             list(commands)[i].id = list(commands)[j].id => i = j)
  /\ [][(Called("register") /\ ~last'.threw) =>
          list(commands') = Append(list(commands), last'.cmds[1])]_vars
  /\ [][Called("unregister") =>
          list(commands') = SelectSeq(list(commands), LAMBDA c : c.id # last'.key)]_vars

\* The invocation a step starts: the frame pushed on top of the stack.
Invokes ==
  /\ call'.pc = "running"
  /\ Len(call'.stack) = Len(call.stack) + 1

\* C31: runMiddleware is the right fold of the configured list around the
\* handler: every next() called by middleware i, its first and any later one,
\* invokes middleware i+1, or the handler when i is the last; a second next()
\* of an outer middleware skips nothing between it and the handler.
C31_RightFold ==
  [][Invokes =>
       LET i == IF call.pc = "running" /\ call.stack # <<>> THEN Top(call).who ELSE 0
           invoked == Top(call')
       IN IF i < Len(middleware)
          THEN invoked.who = i + 1 /\ invoked.kind = middleware[i + 1]
          ELSE invoked.kind = "handler"]_vars

\* Some definition of the batch has an id that is registered, or that an
\* earlier definition of the batch has.
BatchClash(cmds) ==
  \E i \in 1..Len(cmds) :
    \/ Registered(commands, cmds[i].id)
    \/ \E j \in 1..(i - 1) : cmds[j].id = cmds[i].id

\* C32: registerAll is all-or-nothing: with an id of the batch already
\* registered or repeated in the batch it throws and leaves the registry as
\* it was, notifying nobody; otherwise every definition of the batch is
\* registered in one state transition.
C32_RegisterAllAtomic ==
  [][Called("registerAll") =>
       LET cmds == last'.cmds
       IN IF BatchClash(cmds)
          THEN /\ last'.threw
               /\ commands' = commands
               /\ owners' = owners
               /\ last'.notified = 0
          ELSE /\ ~last'.threw
               /\ \A i \in 1..Len(cmds) : get(commands', cmds[i].id) = cmds[i]
               /\ size(commands') = size(commands) + Len(cmds)
               /\ last'.notified = 1]_vars

\* C33: registerForOwner(o, ...) and unregisterForOwner(o) never remove or
\* replace a command whose current registration was made by register,
\* registerAll or registerForOwner of another owner.
C33_OwnerScoped ==
  [][(Called("registerForOwner") \/ Called("unregisterForOwner")) =>
       \A id \in Ids :
         (Registered(commands, id) /\ madeBy[id] # last'.key) =>
            /\ get(commands', id) = get(commands, id)
            /\ madeBy'[id] = madeBy[id]]_vars

\* The ids the owner index records under the owner at position k.
Recorded(k) == {owners[k].val.ids[j] : j \in 1..Len(owners[k].val.ids)}

\* C34: every id the owner index records under an owner is registered, with
\* the definition that owner supplied, and no id is recorded under two
\* owners; unregister of an owned id leaves no stale record.
C34_OwnerIndexConsistent ==
  /\ \A k \in 1..Len(owners) :
       \A id \in Recorded(k) :
         Registered(commands, id) /\ madeBy[id] = owners[k].key
  /\ \A k, l \in 1..Len(owners) : k # l => Recorded(k) \cap Recorded(l) = {}

\* The handler of a finished call of a registered command ran after the whole
\* list, with the call's own params and context, and gave its own result.
RanAlone(c) ==
  (c.pc = "done" /\ Registered(commands, c.id)) =>
     /\ PipelineEvents(c.trace) = Onion(Len(middleware))
     /\ c.received = c.params
     /\ \A k \in DOMAIN c.overrides : c.ctx[k] = c.overrides[k]
     /\ c.overrides = <<>> => (c.ctx.source = "unknown" /\ "invocation" \notin DOMAIN c.ctx)
     /\ c.result.success = (get(commands, c.id).execute = "ok")

\* C35: two execute calls in flight at once, interleaving at await points,
\* are independent: each traverses the whole middleware list in order to its
\* own command's handler with its own params and its own context, and a step
\* of one call leaves the other as it is.
C35_ConcurrentCallsIndependent ==
  /\ [](RanAlone(call) /\ RanAlone(other))
  /\ [][other' = other \/ (other' = call /\ call' = other)]_vars

\* Both calls are in flight: one suspended in the first middleware, the other
\* past its handler, for different commands with different overrides.
C35_Witness ==
  /\ call.pc = "running"
  /\ other.pc = "running"
  /\ call.id # other.id
  /\ call.overrides # other.overrides
  /\ Len(middleware) = 2
  /\ HandlerRan
  /\ other.trace = <<Event("contextProvider", 0), Event("before", 1)>>

\* What the handler of a definition gives.
Gives(def) ==
  IF def.execute = "ok"
  THEN Returns(Result(TRUE, <<>>))
  ELSE Returns(Result(FALSE, <<"nothing to do">>))

\* C36: a mutation interleaved with an execute call in flight does not
\* corrupt it: the call looks its definition up when it starts, in the
\* registry as it then is, keeps it while the id is unregistered or replaced,
\* and ends in the handler of that definition; mutations leave the call alone.
C36_MutationDuringExecute ==
  /\ [][(call.pc \in {"idle", "done"} /\ call' # call) =>
          call'.cmd = get(commands, call'.id)]_vars
  /\ [][call.pc = "running" => (call'.cmd = call.cmd /\ call'.id = call.id)]_vars
  /\ [][(Ready("handler") /\ call' # call) => call'.ret = Gives(call.cmd)]_vars
  /\ [][(commands' # commands \/ owners' # owners) => call' = call]_vars

\* The call is suspended with its handler about to run, and the id it looked
\* up has been replaced by another definition in the meantime.
C36_Witness ==
  /\ call.pc = "running"
  /\ call.stack # <<>>
  /\ Top(call).kind = "handler"
  /\ Len(middleware) = 2
  /\ call.cmd = MutA1
  /\ get(commands, call.id) = MutA2
  /\ madeBy["app.a"] = "panelA"

\* The environment value of a key: false when the context lacks it.
EnvValue(key) == key \in DOMAIN appContext /\ appContext[key]

LiteralHolds(lit) == IF lit.neg THEN ~EnvValue(lit.key) ELSE EnvValue(lit.key)

\* The documented grammar: all parts for "&&", some part for "||".
Holds(clause) ==
  IF clause.op = "||"
  THEN \E i \in 1..Len(clause.parts) : LiteralHolds(clause.parts[i])
  ELSE \A i \in 1..Len(clause.parts) : LiteralHolds(clause.parts[i])

\* C37: the reference evaluateWhen implements the documented grammar: a key
\* is its environment value (false when absent), '!key' its negation, parts
\* joined by '&&' hold when all do and parts joined by '||' when one does,
\* each part a key or a negated key in any position.
C37_ReferenceEvaluator ==
  [][Called("evaluateWhen") =>
       last'.ret = BoolText(Holds(last'.cmds[1]))]_vars

\* The queries of the two registries agree in the current state.
SameAnswers ==
  /\ \A id \in Ids :
       /\ MapGet(mapped.commands, id) = get(commands, id)
       /\ mapIsAvailable(mapped.commands, id) = isAvailable(commands, id)
  /\ mapList(mapped.commands) = list(commands)
  /\ mapListAvailable(mapped.commands) = listAvailable(commands)
  /\ mapSize(mapped.commands) = size(commands)

\* C38: the Map-backed and the store-backed registry are observationally
\* equivalent on register, registerAll, unregister, get, isAvailable, list,
\* listAvailable and size, for every id string: the same calls return the
\* same values, throw in the same cases and leave the same registered
\* commands.
C38_RegistriesEquivalent ==
  /\ []SameAnswers
  /\ [][(Called("register") \/ Called("registerAll") \/ Called("unregister")) =>
          (mapped'.threw = last'.threw /\ mapped'.ret = last'.ret)]_vars

\* The call the step makes is one of the five mutations, and it succeeds:
\* it does not throw, an unregister returns true, and an unregisterForOwner
\* finds ids recorded under the owner.
Mutates ==
  \/ Called("register") \/ Called("registerAll") \/ Called("unregister")
  \/ Called("registerForOwner") \/ Called("unregisterForOwner")

Succeeds ==
  /\ ~last'.threw
  /\ last'.op = "unregister" => last'.ret = "true"
  /\ last'.op = "unregisterForOwner" => LengthOf(OwnerIds(owners, last'.key)) > 0

\* C39: a subscribed listener is notified exactly once by each successful
\* register, registerAll, unregister, registerForOwner and unregisterForOwner,
\* not at all by a call that throws, an unregister that returns false or an
\* unregisterForOwner that finds no ids, and never after it unsubscribed.
C39_ListenerNotifiedOnce ==
  [][Mutates =>
       /\ last'.notified = IF subscribed /\ Succeeds THEN 1 ELSE 0
       /\ last'.notified = 1 => seen' = [commands |-> commands', owners |-> owners']
       /\ last'.notified = 0 => seen' = seen]_vars

\* The listener has seen a successful registration, and was not called by the
\* register that has just thrown on the duplicate.
C39_Witness ==
  /\ subscribed
  /\ last.op = "register"
  /\ last.threw
  /\ last.notified = 0
  /\ commands # <<>>
  /\ seen.commands = commands

(***************************************************************************)
(* The AI tools adapter.  Strings are read character by character by        *)
(* String.prototype.replace; a string is modelled by its text, the sequence *)
(* of its separator characters and of the runs between them.                *)
(***************************************************************************)
TextOf ==
  [s \in {"app.a", "app_a", "app.my_cmd", "app.my.cmd", "app_my_cmd"} |->
     CASE s = "app.a" -> <<"app", ".", "a">>
       [] s = "app_a" -> <<"app", "_", "a">>
       [] s = "app.my_cmd" -> <<"app", ".", "my", "_", "cmd">>
       [] s = "app.my.cmd" -> <<"app", ".", "my", ".", "cmd">>
       [] s = "app_my_cmd" -> <<"app", "_", "my", "_", "cmd">>]

\* The string that has the given text.
StringOf(text) == CHOOSE s \in DOMAIN TextOf : TextOf[s] = text

\* s.replace(/from/g, to) for a one-character pattern.
ReplaceAll(s, from, to) ==
  StringOf([i \in DOMAIN TextOf[s] |-> IF TextOf[s][i] = from THEN to ELSE TextOf[s][i]])

\* command.id.replace(/\./g, '_')
ToolName(id) == ReplaceAll(id, ".", "_")

\* toolName.replace(/_/g, '.')
CommandIdOf(toolName) == ReplaceAll(toolName, "_", ".")

\* The toJsonSchema converter the caller passes in.
toJsonSchema(schema) == <<"jsonSchema", schema>>

\* The commands both conversions keep: available, and with a schema (no
\* filterTags option given).
WithSchema(cmds) == SelectSeq(listAvailable(cmds), LAMBDA command : command.schema # Undef)

\* toAnthropicTools: one tool per kept command, in listing order (the
\* definitions carry no description, so the label is the description).
toAnthropicTools(cmds) ==
  [i \in 1..Len(WithSchema(cmds)) |->
     [name |-> ToolName(WithSchema(cmds)[i].id),
      description |-> WithSchema(cmds)[i].label,
      input_schema |-> toJsonSchema(WithSchema(cmds)[i].schema)]]

\* toVercelAiTools: an object keyed by tool name; a later command with the
\* same tool name takes the key.  execute is the id its closure calls.
RECURSIVE VercelTools(_, _)
VercelTools(tools, kept) ==
  IF kept = <<>> THEN tools
  ELSE VercelTools(ObjSet(tools, ToolName(Head(kept).id),
                          [description |-> Head(kept).label,
                           parameters |-> Head(kept).schema,
                           execute |-> Head(kept).id]),
                   Tail(kept))

toVercelAiTools(cmds) == VercelTools(<<>>, WithSchema(cmds))

\* The tool names the model is offered by either conversion.
OfferedNames(cmds) ==
  {toAnthropicTools(cmds)[i].name : i \in 1..Len(toAnthropicTools(cmds))}
    \cup {toVercelAiTools(cmds)[i].key : i \in 1..Len(toVercelAiTools(cmds))}

\* The overrides both routes give to registry.execute.
AiOverrides == [source |-> "ai", invocation |-> "ai", store |-> Undef]

\* A caller's call that starts an execute: the execute is under way and the
\* caller holds the tool name it called with.
ToolCall(op, toolName, cl) ==
  /\ call.pc \in {"idle", "done"}
  /\ last = NoCall
  /\ call' = cl
  /\ last' = [op |-> op, key |-> toolName, cmds |-> <<>>, threw |-> FALSE,
              ret |-> Undef, notified |-> 0]
  /\ UNCHANGED <<commands, owners, seen, cfgVars, defined, madeBy, other, sideVars>>

\* executeAiToolCall(registry, toolName, params) for a tool_use block that
\* names one of the offered tools.
ExecuteAiToolCall(toolName, params) ==
  /\ toolName \in OfferedNames(commands)
  /\ ToolCall("executeAiToolCall", toolName,
              execute(commands, CommandIdOf(toolName), params, AiOverrides))

\* The execute of the Vercel tool under the given name.
VercelExecute(toolName, params) ==
  /\ HasOwn(toVercelAiTools(commands), toolName)
  /\ ToolCall("tool.execute", toolName,
              execute(commands,
                      toVercelAiTools(commands)[OwnIndex(toVercelAiTools(commands), toolName)].val.execute,
                      params, AiOverrides))

\* Commands offered to a model: ids with and without an underscore, two ids
\* that differ in one separator (one of them behind a when clause), and a
\* command without a schema.
AiA == Cmd("app.a", "A", Undef, "schema", Undef, "ok")

AiPlain == Cmd("app.a", "A plain", Undef, Undef, Undef, "ok")

AiUnder == Cmd("app.my_cmd", "My cmd", Undef, "schema", Undef, "ok")

AiDots == Cmd("app.my.cmd", "My dotted cmd", "ctx.hidden", "schema", Undef, "fail")

AiDefs == {AiA, AiPlain, AiUnder, AiDots}

AiIds == {"app.a", "app.my_cmd", "app.my.cmd"}

AiNames == {"app_a", "app_my_cmd"}

InitAi ==
  /\ commands = <<>>
  /\ owners = <<>>
  /\ last = NoCall
  /\ seen = [commands |-> <<>>, owners |-> <<>>]
  /\ middleware = <<>>
  /\ evalMode \in {"default", "lookup"}
  /\ providerMode = "default"
  /\ call = IdleCall
  /\ defined = UndefinedValue
  /\ madeBy = ByCaller(commands)
  /\ other = IdleCall
  /\ appContext = NoAppContext
  /\ mapped = EmptyMap
  /\ subscribed = TRUE

NextAi ==
  \/ \E command \in AiDefs : Register(command)
  \/ \E id \in AiIds : Unregister(id)
  \/ \E toolName \in AiNames, params \in Params : ExecuteAiToolCall(toolName, params)
  \/ \E toolName \in AiNames, params \in Params : VercelExecute(toolName, params)
  \/ Handler
  \/ ExecuteFinish
  \/ TakeOutcome

SpecAi == InitAi /\ [][NextAi]_vars

\* The command a conversion gave the tool name to: registered, available,
\* with a schema, and its id with dots replaced by underscores is the name.
ToolOf(command, toolName) ==
  /\ \E i \in 1..Len(WithSchema(commands)) : WithSchema(commands)[i] = command
  /\ ToolName(command.id) = toolName

\* C40: tool names round-trip to command ids: executeAiToolCall with the
\* tool name a conversion assigned to a registered command executes exactly
\* that command, not an unknown or a different one.
C40_ToolNameRoundTrip ==
  [][Called("executeAiToolCall") =>
       \A command \in AiDefs :
         ToolOf(command, last'.key) =>
           /\ call'.id = command.id
           /\ call'.cmd = command]_vars

====
